---- MODULE Spec2Model ----
\* Model of custom_components/tech/sensor.py: the sensor platform of the Tech
\* HVAC integration.  async_setup_entry fetches the zones of a module once and
\* builds Battery, Temperature and Humidity entities from them; afterwards the
\* host polls each entity, whose async_update re-fetches its zone (get_zone)
\* and recomputes the displayed name and native value.
EXTENDS Integers, Sequences, FiniteSets, TLC

\* ------------------------------------------------------------------ values

\* Python's None is the empty tuple and a present value v the 1-tuple <<v>>.
None == <<>>
Some(v) == <<v>>

\* The longest zone list get_module_zones returns under SetupSpec.
MaxZones == 2
\* The number of async_update calls the host starts under Spec.
MaxRefreshes == 2

Udids == {"abc123", "ff01"}
ZoneIds == {7, 12}
ZoneNames == {"Kitchen", "Bath"}
BatteryLevels == {None, Some(80)}
Temperatures == {None, Some(0), Some(235), Some(-15)}
Humidities == {None, Some(0), Some(45)}
ApiErrors == {"TechError", "TimeoutError"}

\* A zone record as the remote client returns it: device["zone"][...] and
\* device["description"]["name"].
Zone(id, nm, b, t, h) ==
  [zone |-> [id |-> id, batteryLevel |-> b, currentTemperature |-> t, humidity |-> h],
   description |-> [name |-> nm]]

ZoneRecords ==
  {Zone(id, nm, b, t, h) : id \in ZoneIds, nm \in ZoneNames, b \in BatteryLevels,
                           t \in Temperatures, h \in Humidities}

\* The records of a module at setup: every zone id with every combination of
\* readings, each zone under the name the module gives it.
ZoneNameOf(id) == IF id = 7 THEN "Kitchen" ELSE "Bath"

SetupZones == {z \in ZoneRecords : z.description.name = ZoneNameOf(z.zone.id)}

\* Zone lists of exactly n records, in the order the zones mapping iterates.
ZoneListsOfLen(n) == [1..n -> SetupZones]

\* Every zone list of at most MaxZones records.
ZoneLists == UNION {ZoneListsOfLen(k) : k \in 0..MaxZones}

\* The (battery, temperature, humidity) readings a poll returns under Spec.
PolledReadings ==
  {<<Some(80), Some(235), Some(45)>>,
   <<None, None, None>>,
   <<None, Some(0), Some(0)>>,
   <<Some(80), Some(-15), Some(0)>>}

RemoteZones ==
  {Zone(id, nm, r[1], r[2], r[3]) : id \in ZoneIds, nm \in ZoneNames, r \in PolledReadings}

\* The module snapshots get_module_zones returns under Spec.
InstalledModules ==
  {<<Zone(7, "Kitchen", Some(80), Some(235), Some(45))>>,
   <<Zone(7, "Kitchen", Some(80), Some(235), Some(45)),
     Zone(12, "Bath", None, None, Some(0))>>,
   <<Zone(12, "Bath", None, Some(0), None)>>}

\* ------------------------------------------------------------------ helpers

Digit(d) == <<"0", "1", "2", "3", "4", "5", "6", "7", "8", "9">>[d + 1]

\* str() of an integer: its decimal digits, with a leading minus sign.
RECURSIVE Str(_)
Str(n) ==
  IF n < 0 THEN "-" \o Str(-n)
  ELSE IF n < 10 THEN Digit(n)
  ELSE Str(n \div 10) \o Digit(n % 10)

Abs(n) == IF n < 0 THEN -n ELSE n

RECURSIVE Gcd(_, _)
Gcd(a, b) == IF b = 0 THEN a ELSE Gcd(b, a % b)

\* Python's true division of two integers, b > 0: the quotient as a fraction
\* in lowest terms (235 / 10 is 47/2, that is 23.5; 0 / 10 is 0/1).
TrueDivFloor(a, b) == [num |-> a \div b, den |-> 1]
TrueDiv(a, b) ==
  LET g == Gcd(Abs(a), b) IN [num |-> a \div g, den |-> b \div g]

\* ------------------------------------------------------------------ classifier

is_battery_operating_device(device) == device.zone.batteryLevel # None

is_humidity_operating_device(device) == device.zone.humidity # None

\* ------------------------------------------------------------------ entities

Battery_update_properties(self, device) ==
  [self EXCEPT !._name = device.description.name,
               !._attr_native_value = device.zone.batteryLevel]

Temperature_update_properties_truthy(self, device) ==
  [self EXCEPT !._name = device.description.name,
               !._attr_native_value =
                 IF device.zone.currentTemperature \notin {None, Some(0)}
                 THEN Some(TrueDiv(device.zone.currentTemperature[1], 10))
                 ELSE None]
Temperature_update_properties(self, device) ==
  [self EXCEPT !._name = device.description.name,
               !._attr_native_value =
                 IF device.zone.currentTemperature # None
                 THEN Some(TrueDiv(device.zone.currentTemperature[1], 10))
                 ELSE None]

Humidity_update_properties_raw(self, device) ==
  [self EXCEPT !._name = device.description.name,
               !._attr_native_value = device.zone.humidity]
Humidity_update_properties(self, device) ==
  [self EXCEPT !._name = device.description.name,
               !._attr_native_value =
                 IF device.zone.humidity # Some(0)
                 THEN device.zone.humidity
                 ELSE None]

update_properties_rekey(self, device) ==
  [(CASE self.kind = "battery" -> Battery_update_properties(self, device)
      [] self.kind = "temperature" -> Temperature_update_properties(self, device)
      [] self.kind = "humidity" -> Humidity_update_properties(self, device))
   EXCEPT !._id = device.zone.id,
          !._unique_id = self._udid \o "_" \o Str(device.zone.id)]
update_properties(self, device) ==
  CASE self.kind = "battery" -> Battery_update_properties(self, device)
    [] self.kind = "temperature" -> Temperature_update_properties(self, device)
    [] self.kind = "humidity" -> Humidity_update_properties(self, device)

\* __init__ of the three classes: the identity fields, then update_properties.
NewSensorBareId(kind, device, udid) ==
  update_properties(
    [kind |-> kind, _udid |-> udid, _id |-> device.zone.id,
     _unique_id |-> udid \o Str(device.zone.id),
     _name |-> "", _attr_native_value |-> None],
    device)
NewSensor(kind, device, udid) ==
  update_properties(
    [kind |-> kind, _udid |-> udid, _id |-> device.zone.id,
     _unique_id |-> udid \o "_" \o Str(device.zone.id),
     _name |-> "", _attr_native_value |-> None],
    device)

TechBatterySensor(device, udid) == NewSensor("battery", device, udid)
TechTemperatureSensor(device, udid) == NewSensor("temperature", device, udid)
TechHumiditySensor(device, udid) == NewSensor("humidity", device, udid)

\* The unique_id and name properties.
unique_id(self) ==
  CASE self.kind = "battery" -> self._unique_id \o "_battery"
    [] self.kind = "temperature" -> self._unique_id \o "_temperature"
    [] self.kind = "humidity" -> "climate_" \o self._unique_id \o "_humidity"

name(self) ==
  CASE self.kind = "battery" -> self._name \o " battery"
    [] self.kind = "temperature" -> self._name \o " temperature"
    [] self.kind = "humidity" -> self._name \o " humidity"

\* ------------------------------------------------------------------ factory

map_to_battery_sensors_all(zs, u) ==
  [k \in 1..Len(zs) |-> TechBatterySensor(zs[k], u)]
map_to_battery_sensors(zs, u) ==
  LET devices == SelectSeq(zs, is_battery_operating_device)
  IN [k \in 1..Len(devices) |-> TechBatterySensor(devices[k], u)]

map_to_temperature_sensors_present(zs, u) ==
  LET Has(device) == device.zone.currentTemperature # None
      devices == SelectSeq(zs, Has)
  IN [k \in 1..Len(devices) |-> TechTemperatureSensor(devices[k], u)]
map_to_temperature_sensors(zs, u) ==
  [k \in 1..Len(zs) |-> TechTemperatureSensor(zs[k], u)]

map_to_humidity_sensors(zs, u) ==
  LET devices == SelectSeq(zs, is_humidity_operating_device)
  IN [k \in 1..Len(devices) |-> TechHumiditySensor(devices[k], u)]

\* ------------------------------------------------------------------ state

VARIABLES
  phase,     \* "new", "ready" (async_setup_entry returned), "setup_failed"
  udid,      \* config_entry.data["module"]["udid"]
  zones,     \* the zones async_setup_entry got from get_module_zones
  entities,  \* the entities handed to async_add_entities, in chain order
  task,      \* per entity: where its async_update coroutine stands
  resp,      \* per entity: the outcome of the get_zone call it awaits
  started    \* async_update calls started so far

vars == <<phase, udid, zones, entities, task, resp, started>>

Idle == [pc |-> "idle", exc |-> "none"]
NoResp == [status |-> "none", device |-> None, exc |-> "none"]

Init ==
  /\ phase = "new"
  /\ udid = "none"
  /\ zones = <<>>
  /\ entities = <<>>
  /\ task = <<>>
  /\ resp = <<>>
  /\ started = 0

\* ------------------------------------------------------------------ setup

\* async_setup_entry for a module whose get_module_zones returns one of the
\* zone lists in modules: the three factories, chained in this order.
async_setup_entry(modules) ==
  /\ phase = "new"
  /\ \E u \in Udids, zs \in modules :
       /\ udid' = u
       /\ zones' = zs
       /\ entities' = map_to_battery_sensors(zs, u)
                        \o map_to_temperature_sensors(zs, u)
                        \o map_to_humidity_sensors(zs, u)
  /\ phase' = "ready"
  /\ task' = [k \in 1..Len(entities') |-> Idle]
  /\ resp' = [k \in 1..Len(entities') |-> NoResp]
  /\ UNCHANGED started

\* get_module_zones raises: nothing is constructed or registered.
async_setup_entry_raises(u) ==
  /\ phase = "new"
  /\ phase' = "setup_failed"
  /\ udid' = u
  /\ UNCHANGED <<zones, entities, task, resp, started>>

\* ------------------------------------------------------------------ refresh

\* async_update up to its await: the get_zone call is issued.
async_update_call(i) ==
  /\ phase = "ready"
  /\ i \in DOMAIN entities
  /\ task[i].pc # "awaiting"
  /\ started < MaxRefreshes
  /\ task' = [task EXCEPT ![i] = [pc |-> "awaiting", exc |-> "none"]]
  /\ started' = started + 1
  /\ UNCHANGED <<phase, udid, zones, entities, resp>>

\* The remote client completes the call with a zone record ...
get_zone_returns(i, device) ==
  /\ i \in DOMAIN entities
  /\ task[i].pc = "awaiting"
  /\ resp[i].status = "none"
  /\ resp' = [resp EXCEPT ![i] = [status |-> "ok", device |-> Some(device), exc |-> "none"]]
  /\ UNCHANGED <<phase, udid, zones, entities, task, started>>

\* ... or with a failure.
get_zone_raises(i, err) ==
  /\ i \in DOMAIN entities
  /\ task[i].pc = "awaiting"
  /\ resp[i].status = "none"
  /\ resp' = [resp EXCEPT ![i] = [status |-> "error", device |-> None, exc |-> err]]
  /\ UNCHANGED <<phase, udid, zones, entities, task, started>>

\* What resuming entity i's async_update with a record does to the entities.
resume_effect_by_zone(ents, i, device) ==
  [k \in DOMAIN ents |->
     IF ents[k]._id = ents[i]._id THEN update_properties(ents[k], device) ELSE ents[k]]
resume_effect(ents, i, device) ==
  [ents EXCEPT ![i] = update_properties(ents[i], device)]

\* async_update resumes with the record and calls update_properties.
async_update_resume(i) ==
  /\ i \in DOMAIN entities
  /\ task[i].pc = "awaiting"
  /\ resp[i].status = "ok"
  /\ entities' = resume_effect(entities, i, resp[i].device[1])
  /\ task' = [task EXCEPT ![i] = [pc |-> "returned", exc |-> "none"]]
  /\ resp' = [resp EXCEPT ![i] = NoResp]
  /\ UNCHANGED <<phase, udid, zones, started>>

\* async_update resumes with the failure: nothing catches it.
async_update_swallow(i) ==
  /\ i \in DOMAIN entities
  /\ task[i].pc = "awaiting"
  /\ resp[i].status = "error"
  /\ entities' = [entities EXCEPT ![i]._attr_native_value = None]
  /\ task' = [task EXCEPT ![i] = [pc |-> "returned", exc |-> "none"]]
  /\ resp' = [resp EXCEPT ![i] = NoResp]
  /\ UNCHANGED <<phase, udid, zones, started>>
async_update_raise(i) ==
  /\ i \in DOMAIN entities
  /\ task[i].pc = "awaiting"
  /\ resp[i].status = "error"
  /\ task' = [task EXCEPT ![i] = [pc |-> "raised", exc |-> resp[i].exc]]
  /\ resp' = [resp EXCEPT ![i] = NoResp]
  /\ UNCHANGED <<phase, udid, zones, entities, started>>

\* ------------------------------------------------------------------ specifications

Next ==
  \/ async_setup_entry(InstalledModules)
  \/ \E u \in Udids : async_setup_entry_raises(u)
  \/ \E i \in DOMAIN entities : async_update_call(i)
  \/ \E i \in DOMAIN entities, device \in RemoteZones : get_zone_returns(i, device)
  \/ \E i \in DOMAIN entities, err \in ApiErrors : get_zone_raises(i, err)
  \/ \E i \in DOMAIN entities : async_update_resume(i)
  \/ \E i \in DOMAIN entities : async_update_raise(i)

Spec == Init /\ [][Next]_vars

\* Setup alone, over every zone list of at most MaxZones records.
SetupNext ==
  \/ async_setup_entry(ZoneLists)
  \/ \E u \in Udids : async_setup_entry_raises(u)

SetupSpec == Init /\ [][SetupNext]_vars

\* ------------------------------------------------------------------ vocabulary of the properties

KindsOf(kind, id) ==
  {i \in DOMAIN entities : entities[i].kind = kind /\ entities[i]._id = id}

ZonesOf(id) == {k \in DOMAIN zones : zones[k].zone.id = id}

DistinctZoneIds ==
  \A k, l \in DOMAIN zones : k # l => zones[k].zone.id # zones[l].zone.id

\* The decimal text of the zone ids in use.
IdText(id) == IF id = 7 THEN "7" ELSE "12"

KindWord(kind) ==
  CASE kind = "battery" -> "battery"
    [] kind = "temperature" -> "temperature"
    [] kind = "humidity" -> "humidity"

\* value is raw tenths of a degree divided by 10, or unknown when raw is absent.
TemperatureIs(value, raw) ==
  IF raw = None THEN value = None
  ELSE /\ value # None
       /\ value[1].den > 0
       /\ value[1].num * 10 = raw[1] * value[1].den

\* value is the raw humidity when that is non-zero, unknown otherwise.
HumidityIs(value, raw) ==
  IF raw \in {None, Some(0)} THEN value = None ELSE value = raw

ValueIs(kind, value, device) ==
  CASE kind = "battery" -> value = device.zone.batteryLevel
    [] kind = "temperature" -> TemperatureIs(value, device.zone.currentTemperature)
    [] kind = "humidity" -> HumidityIs(value, device.zone.humidity)

\* This step is async_setup_entry returning.
SetupStep == phase = "new" /\ phase' = "ready"

\* This step resumes entity i's async_update with the record get_zone returned.
Pending(i) == task[i].pc = "awaiting" /\ resp[i].status = "ok"
Resumed(i) == Pending(i) /\ task'[i] # task[i]
Returned(i) == resp[i].device[1]

\* Entity i was built from a setup zone with this id and name.
BuiltFrom(i, k) ==
  /\ zones'[k].zone.id = entities'[i]._id
  /\ zones'[k].description.name = entities'[i]._name

\* ------------------------------------------------------------------ setup claims

\* C1: at setup, every zone gets exactly one Humidity entity when its humidity
\* is present and non-zero, and none when its humidity is zero or absent (per
\* zone id: as many Humidity entities as zones of that id qualify).
C1_HumidityEntityIffNonZero ==
  phase = "ready" =>
    \A id \in ZoneIds :
      Cardinality(KindsOf("humidity", id)) =
        Cardinality({k \in ZonesOf(id) : zones[k].zone.humidity \notin {None, Some(0)}})

\* What the classifier does: a Humidity entity for every zone whose humidity is
\* present, zero included.
HumidityEntityIffPresent ==
  phase = "ready" =>
    \A id \in ZoneIds :
      Cardinality(KindsOf("humidity", id)) =
        Cardinality({k \in ZonesOf(id) : zones[k].zone.humidity # None})

\* C2: at setup, every zone gets exactly one Battery entity when its
\* batteryLevel is present and none when it is absent (per zone id: as many
\* Battery entities as zones of that id have a battery level).
C2_BatteryEntityIffPresent ==
  phase = "ready" =>
    \A id \in ZoneIds :
      Cardinality(KindsOf("battery", id)) =
        Cardinality({k \in ZonesOf(id) : zones[k].zone.batteryLevel # None})

C2_Witness ==
  /\ phase = "ready"
  /\ Len(zones) = 2
  /\ zones[1].zone.batteryLevel = None
  /\ zones[2].zone.batteryLevel # None
  /\ KindsOf("battery", zones[1].zone.id) = {}
  /\ Cardinality(KindsOf("battery", zones[2].zone.id)) = 1

\* C9: at setup, every zone gets exactly one Temperature entity, also a zone
\* whose currentTemperature is absent, whose entity then shows unknown.
C9_TemperatureEntityForEveryZone ==
  phase = "ready" =>
    /\ \A id \in ZoneIds :
         Cardinality(KindsOf("temperature", id)) = Cardinality(ZonesOf(id))
    /\ \A k \in DOMAIN zones :
         zones[k].zone.currentTemperature = None =>
           \E i \in KindsOf("temperature", zones[k].zone.id) :
             entities[i]._attr_native_value = None

C9_Witness ==
  /\ phase = "ready"
  /\ Len(zones) = 2
  /\ zones[1].zone.currentTemperature = None
  /\ zones[2].zone.currentTemperature # None
  /\ zones[1].zone.id # zones[2].zone.id
  /\ \E i \in KindsOf("temperature", zones[1].zone.id) :
       entities[i]._attr_native_value = None

\* C8: the unique id is udid_z_battery, udid_z_temperature and
\* climate_udid_z_humidity, z the id of a zone of the setup; so zones of
\* pairwise distinct ids give entities of pairwise distinct unique ids.
C8_UniqueIdFormat ==
  phase = "ready" =>
    /\ \A i \in DOMAIN entities :
         LET e == entities[i] IN
           /\ ZonesOf(e._id) # {}
           /\ e.kind = "battery" =>
                unique_id(e) = udid \o "_" \o IdText(e._id) \o "_battery"
           /\ e.kind = "temperature" =>
                unique_id(e) = udid \o "_" \o IdText(e._id) \o "_temperature"
           /\ e.kind = "humidity" =>
                unique_id(e) = "climate_" \o udid \o "_" \o IdText(e._id) \o "_humidity"
    /\ DistinctZoneIds =>
         \A i, j \in DOMAIN entities :
           i # j => unique_id(entities[i]) # unique_id(entities[j])

C8_Witness ==
  /\ phase = "ready"
  /\ Len(zones) = 2
  /\ DistinctZoneIds
  /\ Len(entities) = 6
  /\ \E i, j, l \in DOMAIN entities :
       /\ unique_id(entities[i]) = "abc123_7_battery"
       /\ unique_id(entities[j]) = "abc123_7_temperature"
       /\ unique_id(entities[l]) = "climate_abc123_7_humidity"

\* ------------------------------------------------------------------ refresh claims

\* The entity set after setup: no step adds, removes or re-types an entity.
EntitySetFixed ==
  [][phase = "ready" =>
       /\ DOMAIN entities' = DOMAIN entities
       /\ \A i \in DOMAIN entities :
            /\ entities'[i].kind = entities[i].kind
            /\ entities'[i]._id = entities[i]._id]_vars

\* C3: after setup the entity set is fixed, and a zone whose battery was
\* absent, or whose humidity was absent or zero, at setup has no Battery or
\* Humidity entity, whatever the later refreshes return.
C3_UnqualifiedZoneNeverHasEntity ==
  (phase = "ready" /\ \E i \in DOMAIN entities : task[i].pc = "returned") =>
    \A k \in DOMAIN zones :
      /\ (\A l \in ZonesOf(zones[k].zone.id) : zones[l].zone.batteryLevel = None)
           => KindsOf("battery", zones[k].zone.id) = {}
      /\ (\A l \in ZonesOf(zones[k].zone.id) : zones[l].zone.humidity \in {None, Some(0)})
           => KindsOf("humidity", zones[k].zone.id) = {}

\* C4: a successful refresh leaves the entity with the name and native value
\* derived from the record get_zone returned, and with the unique id, module
\* id and zone id it had, whatever name, value or zone id the record carries.
C4_RefreshUpdatesNameAndValueOnly ==
  [][\A i \in DOMAIN entities :
       Resumed(i) =>
         /\ name(entities'[i]) =
              Returned(i).description.name \o " " \o KindWord(entities[i].kind)
         /\ ValueIs(entities[i].kind, entities'[i]._attr_native_value, Returned(i))
         /\ unique_id(entities'[i]) = unique_id(entities[i])
         /\ entities'[i]._udid = entities[i]._udid
         /\ entities'[i]._id = entities[i]._id
         /\ entities'[i].kind = entities[i].kind]_vars

C4_Witness ==
  \E i \in DOMAIN entities, k \in DOMAIN zones :
    /\ task[i].pc = "returned"
    /\ entities[i].kind = "battery"
    /\ zones[k].zone.id = entities[i]._id
    /\ zones[k].description.name # entities[i]._name
    /\ zones[k].zone.batteryLevel # entities[i]._attr_native_value
    /\ unique_id(entities[i]) = udid \o "_" \o IdText(zones[k].zone.id) \o "_battery"

\* C5: when get_zone fails, async_update ends by raising that same failure,
\* and the entity's name, native value and unique id are what they were.
C5_FailurePropagatesUnchanged ==
  [][\A i \in DOMAIN entities :
       (task[i].pc = "awaiting" /\ resp[i].status = "error" /\ task'[i] # task[i]) =>
         /\ task'[i] = [pc |-> "raised", exc |-> resp[i].exc]
         /\ name(entities'[i]) = name(entities[i])
         /\ entities'[i]._attr_native_value = entities[i]._attr_native_value
         /\ unique_id(entities'[i]) = unique_id(entities[i])]_vars

C5_Witness ==
  \E i \in DOMAIN entities :
    /\ task[i] = [pc |-> "raised", exc |-> "TimeoutError"]
    /\ entities[i]._attr_native_value # None

\* C6: a Humidity entity's native value, at construction and after every
\* successful refresh, is the record's raw humidity when that is non-zero and
\* unknown when it is 0 or absent; the refresh then returns normally.
C6_HumidityValue ==
  [][/\ SetupStep =>
          \A i \in DOMAIN entities' :
            entities'[i].kind = "humidity" =>
              \E k \in DOMAIN zones' :
                /\ BuiltFrom(i, k)
                /\ HumidityIs(entities'[i]._attr_native_value, zones'[k].zone.humidity)
     /\ \A i \in DOMAIN entities :
          (entities[i].kind = "humidity" /\ Resumed(i)) =>
            /\ task'[i].pc = "returned"
            /\ HumidityIs(entities'[i]._attr_native_value, Returned(i).zone.humidity)]_vars

C6_Witness ==
  \E i, j \in DOMAIN entities :
    /\ entities[i].kind = "humidity" /\ entities[j].kind = "humidity"
    /\ task[i].pc = "returned" /\ task[j].pc = "returned"
    /\ entities[i]._attr_native_value = None
    /\ entities[j]._attr_native_value = Some(45)

\* C7: a Temperature entity's native value, at construction and after every
\* successful refresh, is the raw currentTemperature divided by 10 when the
\* raw reading is present (a raw 0 gives 0), and unknown exactly when absent.
C7_TemperatureValue ==
  [][/\ SetupStep =>
          \A i \in DOMAIN entities' :
            entities'[i].kind = "temperature" =>
              \E k \in DOMAIN zones' :
                /\ BuiltFrom(i, k)
                /\ TemperatureIs(entities'[i]._attr_native_value,
                                 zones'[k].zone.currentTemperature)
     /\ \A i \in DOMAIN entities :
          (entities[i].kind = "temperature" /\ Resumed(i)) =>
            TemperatureIs(entities'[i]._attr_native_value,
                          Returned(i).zone.currentTemperature)]_vars

C7_Witness ==
  \E i, j \in DOMAIN entities :
    /\ entities[i].kind = "temperature" /\ entities[j].kind = "temperature"
    /\ task[i].pc = "returned" /\ task[j].pc = "returned"
    /\ entities[i]._attr_native_value = Some([num |-> 0, den |-> 1])
    /\ entities[j]._attr_native_value = Some([num |-> 47, den |-> 2])

\* C10: a refresh changes only its own entity, which takes its name and value
\* from its own record; and two pending refreshes of distinct entities give
\* the same entities in either order of resumption.
C10_RefreshesIndependent ==
  [][phase = "ready" =>
       /\ \A i \in DOMAIN entities :
            /\ entities'[i] # entities[i] => Resumed(i)
            /\ Resumed(i) =>
                 /\ entities'[i] = update_properties(entities[i], Returned(i))
                 /\ \A j \in DOMAIN entities : j # i => entities'[j] = entities[j]
       /\ \A i, j \in DOMAIN entities :
            (i # j /\ Pending(i) /\ Pending(j)) =>
              resume_effect(resume_effect(entities, i, Returned(i)), j, Returned(j))
                = resume_effect(resume_effect(entities, j, Returned(j)), i, Returned(i))]_vars

C10_Witness ==
  \E i, j \in DOMAIN entities :
    /\ i # j
    /\ entities[i]._id = entities[j]._id
    /\ task[i].pc = "returned" /\ task[j].pc = "returned"
    /\ entities[i]._name # entities[j]._name

====
